---- MODULE Spec2Model ----
(***************************************************************************)
(* Model of the WellcomeML loaders.                                        *)
(*                                                                         *)
(*   src/scripts/loading.py  load_wellcome_data, extract_all_fields        *)
(*   src/data/loading.py     load_data                                     *)
(*                                                                         *)
(* Python values are represented as follows.                               *)
(*   str    a sequence of one-character strings ("ab" is <<"a","b">>)      *)
(*   None   the sequence <<"None">>, which is no str (its one element has  *)
(*          four characters)                                               *)
(*   list   a sequence                                                     *)
(*   dict   a function whose domain is the set of its keys                 *)
(*   int, bool  themselves                                                 *)
(***************************************************************************)
EXTENDS Integers, Sequences, FiniteSets, TLC

(***************************************************************************)
(* Bounds of the model.                                                    *)
(***************************************************************************)
MaxLines == 3
MaxCap == 3
MaxEntries == 2
MaxIdents == 2
MaxItems == 2

(***************************************************************************)
(* Python primitives used by the code.                                     *)
(***************************************************************************)
None == <<"None">>
EmptyDict == <<>>

\* dict.get(k, default)
Get(d, k, default) == IF k \in DOMAIN d THEN d[k] ELSE default

\* d[k] = v : assignment creates the key when the dict does not hold it
Put(d, k, v) == (k :> v) @@ d

\* d[k].append(v)
ListAppend(d, k, v) == Put(d, k, Append(d[k], v))

\* truth value of a list or dict
NonEmpty(v) == DOMAIN v # {}

\* truth value of a str or None
TruthyStr(v) == v # None /\ v # <<>>

\* sep.join(lst)
RECURSIVE Join(_, _)
Join(sep, lst) ==
    IF Len(lst) = 0 THEN <<>>
    ELSE IF Len(lst) = 1 THEN lst[1]
    ELSE lst[1] \o sep \o Join(sep, Tail(lst))

UpperChars == <<"A","B","C","D","E","F","G","H","I","J","K","L","M",
                "N","O","P","Q","R","S","T","U","V","W","X","Y","Z">>
LowerChars == <<"a","b","c","d","e","f","g","h","i","j","k","l","m",
                "n","o","p","q","r","s","t","u","v","w","x","y","z">>

\* str.lower()
Lower(s) ==
    [i \in DOMAIN s |->
        IF \E j \in DOMAIN UpperChars : UpperChars[j] = s[i]
        THEN LowerChars[CHOOSE j \in DOMAIN UpperChars : UpperChars[j] = s[i]]
        ELSE s[i]]

\* sub in s
Contains(sub, s) ==
    \E i \in 0..(Len(s) - Len(sub)) : SubSeq(s, i + 1, i + Len(sub)) = sub

(***************************************************************************)
(* String literals of the code.                                            *)
(***************************************************************************)
SemiSep == <<";", " ">>
BarSep == <<" ", "|", " ">>
Colon == <<":">>
Str_isbn == <<"i","s","b","n">>
Str_issn == <<"i","s","s","n">>
Str_sierra == <<"s","i","e","r","r","a","-","s","y","s","t","e","m","-",
                "n","u","m","b","e","r">>
Str_wellcome == <<"w","e","l","l","c","o","m","e">>
Str_online == <<"o","n","l","i","n","e">>
Str_Unknown == <<"U","n","k","n","o","w","n">>
Str_general == <<"g","e","n","e","r","a","l">>

(***************************************************************************)
(* extract_all_fields, one operator per block of the function.             *)
(***************************************************************************)

\* the dict literal that opens the function
InitParsed(work) ==
    [ id |-> Get(work, "id", None),
      title |-> Get(work, "title", None),
      alternativeTitles |-> None,
      workType |-> Get(Get(work, "workType", EmptyDict), "label", None),
      workType_id |-> Get(Get(work, "workType", EmptyDict), "id", None),
      description |-> Get(work, "description", None),
      physicalDescription |-> Get(work, "physicalDescription", None),
      lettering |-> Get(work, "lettering", None),
      edition |-> Get(work, "edition", None),
      production_date |-> None,
      production_date_from |-> None,
      production_date_to |-> None,
      production_places |-> <<>>,
      production_agents |-> <<>>,
      production_function |-> None,
      contributors |-> <<>>,
      contributor_roles |-> <<>>,
      contributor_ids |-> <<>>,
      subjects |-> <<>>,
      subject_ids |-> <<>>,
      genres |-> <<>>,
      genre_ids |-> <<>>,
      languages |-> <<>>,
      language_ids |-> <<>>,
      identifiers |-> <<>>,
      isbn |-> None,
      issn |-> None,
      sierra_system_number |-> None,
      wellcome_library_number |-> None,
      notes |-> <<>>,
      note_types |-> <<>>,
      thumbnail_url |-> None,
      has_digitized_items |-> FALSE,
      items_count |-> 0,
      availability_status |-> <<>>,
      partOf_title |-> None,
      partOf_id |-> None,
      parts_count |-> 0,
      precededBy_title |-> None,
      precededBy_id |-> None,
      succeededBy_title |-> None,
      succeededBy_id |-> None,
      holdings_count |-> 0,
      referenceNumber |-> Get(work, "referenceNumber", None),
      images_count |-> 0 ]

\* Alternative titles
AltTitles(parsed, work) ==
    LET alt_titles == Get(work, "alternativeTitles", <<>>) IN
    IF NonEmpty(alt_titles)
    THEN Put(parsed, "alternativeTitles", Join(SemiSep, alt_titles))
    ELSE parsed

\* for x in lst: if 'label' in x: parsed[key].append(x['label'])
RECURSIVE AppendLabels(_, _, _)
AppendLabels(parsed, key, lst) ==
    IF Len(lst) = 0 THEN parsed
    ELSE AppendLabels(
            IF "label" \in DOMAIN lst[1]
            THEN ListAppend(parsed, key, lst[1]["label"])
            ELSE parsed,
            key, Tail(lst))

ProductionFunction(parsed, prod) ==
    IF "function" \in DOMAIN prod
    THEN Put(parsed, "production_function", Get(prod["function"], "label", None))
    ELSE parsed

ProductionDates(parsed, prod) ==
    LET dates == Get(prod, "dates", <<>>) IN
    IF NonEmpty(dates)
    THEN LET date_obj == dates[1]
             p1 == Put(parsed, "production_date", Get(date_obj, "label", None))
         IN IF "range" \in DOMAIN date_obj
            THEN LET range_obj == date_obj["range"] IN
                 Put(Put(p1, "production_date_from", Get(range_obj, "from", None)),
                     "production_date_to", Get(range_obj, "to", None))
            ELSE p1
    ELSE parsed

\* Production info: only production[0] is read
Production(parsed, work) ==
    LET production == Get(work, "production", <<>>) IN
    IF NonEmpty(production)
    THEN LET prod == production[1]
             p1 == ProductionFunction(parsed, prod)
             p2 == ProductionDates(p1, prod)
             p3 == AppendLabels(p2, "production_places", Get(prod, "places", <<>>))
         IN AppendLabels(p3, "production_agents", Get(prod, "agents", <<>>))
    ELSE parsed

\* the role of one contributor
RoleLabel(contrib) ==
    LET roles == Get(contrib, "roles", <<>>) IN
    IF NonEmpty(roles) THEN Get(roles[1], "label", Str_Unknown) ELSE Str_Unknown

\* body of: for contrib in contributors
ContribStep(parsed, contrib) ==
    LET agent == Get(contrib, "agent", EmptyDict) IN
    IF "label" \in DOMAIN agent
    THEN LET p1 == ListAppend(parsed, "contributors", agent["label"])
             p2 == IF "id" \in DOMAIN agent
                   THEN ListAppend(p1, "contributor_ids", agent["id"])
                   ELSE p1
         IN ListAppend(p2, "contributor_roles", RoleLabel(contrib))
    ELSE parsed

\* (the id appended outside the test for a label)
LabelIdStepLoose(parsed, entry, labelKey, idKey) ==
    LET p1 == IF "label" \in DOMAIN entry
              THEN ListAppend(parsed, labelKey, entry["label"])
              ELSE parsed
    IN IF "id" \in DOMAIN entry
       THEN ListAppend(p1, idKey, entry["id"])
       ELSE p1

\* body shared by the subjects, genres and languages loops
LabelIdStep(parsed, entry, labelKey, idKey) ==
    IF "label" \in DOMAIN entry
    THEN LET p1 == ListAppend(parsed, labelKey, entry["label"]) IN
         IF "id" \in DOMAIN entry
         THEN ListAppend(p1, idKey, entry["id"])
         ELSE p1
    ELSE parsed

\* body of: for subj in subjects
SubjectStep(parsed, subj) == LabelIdStep(parsed, subj, "subjects", "subject_ids")

\* body of: for genre in genres
GenreStep(parsed, genre) == LabelIdStep(parsed, genre, "genres", "genre_ids")

\* body of: for lang in languages
LanguageStep(parsed, lang) == LabelIdStep(parsed, lang, "languages", "language_ids")

\* (the last test without .lower())
RouteIdentifierCaseSensitive(parsed, id_type, id_value) ==
    IF id_type = Str_isbn THEN Put(parsed, "isbn", id_value)
    ELSE IF id_type = Str_issn THEN Put(parsed, "issn", id_value)
    ELSE IF id_type = Str_sierra THEN Put(parsed, "sierra_system_number", id_value)
    ELSE IF Contains(Str_wellcome, id_type)
         THEN Put(parsed, "wellcome_library_number", id_value)
    ELSE parsed

\* the if/elif chain that routes one identifier into a scalar field
RouteIdentifier(parsed, id_type, id_value) ==
    IF id_type = Str_isbn THEN Put(parsed, "isbn", id_value)
    ELSE IF id_type = Str_issn THEN Put(parsed, "issn", id_value)
    ELSE IF id_type = Str_sierra THEN Put(parsed, "sierra_system_number", id_value)
    ELSE IF Contains(Str_wellcome, Lower(id_type))
         THEN Put(parsed, "wellcome_library_number", id_value)
    ELSE parsed

\* body of: for ident in identifiers
IdentStep(parsed, ident) ==
    LET id_type == Get(Get(ident, "identifierType", EmptyDict), "id", <<>>)
        id_value == Get(ident, "value", <<>>)
    IN IF TruthyStr(id_type) /\ TruthyStr(id_value)
       THEN RouteIdentifier(
                ListAppend(parsed, "identifiers", id_type \o Colon \o id_value),
                id_type, id_value)
       ELSE parsed

\* for content in contents: if isinstance(content, str): notes.append(content)
\* (a content is [isstr |-> TRUE, s |-> str] or [isstr |-> FALSE])
RECURSIVE AppendContents(_, _)
AppendContents(parsed, contents) ==
    IF Len(contents) = 0 THEN parsed
    ELSE AppendContents(
            IF contents[1].isstr
            THEN ListAppend(parsed, "notes", contents[1].s)
            ELSE parsed,
            Tail(contents))

\* body of: for note in notes
NoteStep(parsed, note) ==
    LET note_type == Get(Get(note, "noteType", EmptyDict), "label", Str_general)
    IN AppendContents(ListAppend(parsed, "note_types", note_type),
                      Get(note, "contents", <<>>))

\* (the url stored under another key)
ThumbnailOtherKey(parsed, work) ==
    LET thumbnail == Get(work, "thumbnail", EmptyDict) IN
    IF NonEmpty(thumbnail)
    THEN Put(parsed, "thumbnail", Get(thumbnail, "url", None))
    ELSE parsed

\* Thumbnail
Thumbnail(parsed, work) ==
    LET thumbnail == Get(work, "thumbnail", EmptyDict) IN
    IF NonEmpty(thumbnail)
    THEN Put(parsed, "thumbnail_url", Get(thumbnail, "url", None))
    ELSE parsed

\* parsed['items_count'] = len(items)
ItemsCount(parsed, work) ==
    Put(parsed, "items_count", Len(Get(work, "items", <<>>)))

\* for condition in access_conditions
RECURSIVE AppendStatuses(_, _)
AppendStatuses(parsed, conditions) ==
    IF Len(conditions) = 0 THEN parsed
    ELSE AppendStatuses(
            IF "status" \in DOMAIN conditions[1]
               /\ TruthyStr(Get(conditions[1]["status"], "label", None))
            THEN ListAppend(parsed, "availability_status",
                            conditions[1]["status"]["label"])
            ELSE parsed,
            Tail(conditions))

\* the test for a digital location
IsOnline(loc) ==
    Get(Get(loc, "locationType", EmptyDict), "id", None) = Str_online

\* (the flag assigned from every location)
LocStepAssign(parsed, loc) ==
    AppendStatuses(Put(parsed, "has_digitized_items", IsOnline(loc)),
                   Get(loc, "accessConditions", <<>>))

\* body of: for loc in locations
LocStep(parsed, loc) ==
    LET p1 == IF IsOnline(loc)
              THEN Put(parsed, "has_digitized_items", TRUE)
              ELSE parsed
    IN AppendStatuses(p1, Get(loc, "accessConditions", <<>>))

\* Holdings
Holdings(parsed, work) ==
    Put(parsed, "holdings_count", Len(Get(work, "holdings", <<>>)))

\* partOf, precededBy, succeededBy: only the first element is read
Relation(parsed, work, key, titleKey, idKey) ==
    IF key \in DOMAIN work /\ NonEmpty(work[key])
    THEN LET rel == work[key][1] IN
         Put(Put(parsed, titleKey, Get(rel, "title", None)),
             idKey, Get(rel, "id", None))
    ELSE parsed

PartOf(parsed, work) == Relation(parsed, work, "partOf", "partOf_title", "partOf_id")

Parts(parsed, work) ==
    Put(parsed, "parts_count", Len(Get(work, "parts", <<>>)))

PrecededBy(parsed, work) ==
    Relation(parsed, work, "precededBy", "precededBy_title", "precededBy_id")

SucceededBy(parsed, work) ==
    Relation(parsed, work, "succeededBy", "succeededBy_title", "succeededBy_id")

Images(parsed, work) ==
    Put(parsed, "images_count", Len(Get(work, "images", <<>>)))

\* sep.join(lst) if lst else None
JoinOrNone(sep, lst) == IF NonEmpty(lst) THEN Join(sep, lst) ELSE None

\* iteration order of set(lst).  The order in which a set of str yields its
\* elements follows the hashes of the strings, which CPython salts per
\* process; hashorder is the order the running process gives the labels.
\* Within one process the order of the same elements is always the same.
SetIter(lst, hashorder) ==
    SelectSeq(hashorder, LAMBDA x : \E n \in DOMAIN lst : lst[n] = x)

\* '; '.join(set(lst)) if lst else None
JoinSetOrNone(lst, hashorder) ==
    IF NonEmpty(lst) THEN Join(SemiSep, SetIter(lst, hashorder)) ELSE None

\* the keys whose lists are joined with '; '
SemiKeys == { "production_places", "production_agents", "contributors",
              "contributor_roles", "contributor_ids", "subjects", "subject_ids",
              "genres", "genre_ids", "languages", "language_ids", "identifiers",
              "note_types" }

\* Convert lists to strings for DataFrame: each statement reads parsed[key]
\* and assigns the same key
Convert(parsed, hashorder) ==
    [ key \in DOMAIN parsed |->
        IF key \in SemiKeys THEN JoinOrNone(SemiSep, parsed[key])
        ELSE IF key = "notes" THEN JoinOrNone(BarSep, parsed[key])
        ELSE IF key = "availability_status"
             THEN JoinSetOrNone(parsed[key], hashorder)
        ELSE parsed[key] ]

\* The for loops.  In each, q \in {e} binds q to the value of e, so that an
\* iteration is computed before the next one starts.

\* for contrib in contributors
RECURSIVE Contributors(_, _)
Contributors(parsed, lst) ==
    IF Len(lst) = 0 THEN parsed
    ELSE CHOOSE result \in
            { Contributors(q, Tail(lst)) : q \in { ContribStep(parsed, lst[1]) } } : TRUE

\* for subj in subjects
RECURSIVE Subjects(_, _)
Subjects(parsed, lst) ==
    IF Len(lst) = 0 THEN parsed
    ELSE CHOOSE result \in
            { Subjects(q, Tail(lst)) : q \in { SubjectStep(parsed, lst[1]) } } : TRUE

\* for genre in genres
RECURSIVE Genres(_, _)
Genres(parsed, lst) ==
    IF Len(lst) = 0 THEN parsed
    ELSE CHOOSE result \in
            { Genres(q, Tail(lst)) : q \in { GenreStep(parsed, lst[1]) } } : TRUE

\* for lang in languages
RECURSIVE Languages(_, _)
Languages(parsed, lst) ==
    IF Len(lst) = 0 THEN parsed
    ELSE CHOOSE result \in
            { Languages(q, Tail(lst)) : q \in { LanguageStep(parsed, lst[1]) } } : TRUE

\* for ident in identifiers
RECURSIVE Identifiers(_, _)
Identifiers(parsed, lst) ==
    IF Len(lst) = 0 THEN parsed
    ELSE CHOOSE result \in
            { Identifiers(q, Tail(lst)) : q \in { IdentStep(parsed, lst[1]) } } : TRUE

\* for note in notes
RECURSIVE Notes(_, _)
Notes(parsed, lst) ==
    IF Len(lst) = 0 THEN parsed
    ELSE CHOOSE result \in
            { Notes(q, Tail(lst)) : q \in { NoteStep(parsed, lst[1]) } } : TRUE

\* for loc in locations
RECURSIVE Locations(_, _)
Locations(parsed, lst) ==
    IF Len(lst) = 0 THEN parsed
    ELSE CHOOSE result \in
            { Locations(q, Tail(lst)) : q \in { LocStep(parsed, lst[1]) } } : TRUE

\* body of: for item in items
ItemStep(parsed, item) == Locations(parsed, Get(item, "locations", <<>>))

\* for item in items
RECURSIVE Items(_, _)
Items(parsed, lst) ==
    IF Len(lst) = 0 THEN parsed
    ELSE CHOOSE result \in
            { Items(q, Tail(lst)) : q \in { ItemStep(parsed, lst[1]) } } : TRUE

\* the blocks of the function up to the contributors loop
Opening(work) == Production(AltTitles(InitParsed(work), work), work)

\* the loops over contributors, subjects, genres and languages
Classification(parsed, work) ==
    LET p1 == Contributors(parsed, Get(work, "contributors", <<>>))
        p2 == Subjects(p1, Get(work, "subjects", <<>>))
        p3 == Genres(p2, Get(work, "genres", <<>>))
    IN Languages(p3, Get(work, "languages", <<>>))

\* the loops over identifiers and notes
Annotations(parsed, work) ==
    LET p1 == Identifiers(parsed, Get(work, "identifiers", <<>>))
    IN Notes(p1, Get(work, "notes", <<>>))

\* thumbnail, items_count and the loop over items
Availability(parsed, work) ==
    Items(ItemsCount(Thumbnail(parsed, work), work), Get(work, "items", <<>>))

\* holdings, relationships and images
Relationships(parsed, work) ==
    LET p1 == Parts(PartOf(Holdings(parsed, work), work), work)
    IN Images(SucceededBy(PrecededBy(p1, work), work), work)

\* extract_all_fields(work), run from its first line to its return.  Each
\* p \in {e} binds p to the value of e, so that the blocks are computed one
\* after the other, as the interpreter runs them.
ExtractAllFields(work, hashorder) ==
    CHOOSE result \in
        { Convert(p5, hashorder) :
            p5 \in { Relationships(p4, work) :
                p4 \in { Availability(p3, work) :
                    p3 \in { Annotations(p2, work) :
                        p2 \in { Classification(p1, work) :
                            p1 \in { Opening(work) } } } } } } : TRUE

(***************************************************************************)
(* The records the model flattens.                                         *)
(***************************************************************************)
Seqs(S, n) == UNION {[1..m -> S] : m \in 0..n}

EmptyWork == EmptyDict

LabelIdEntries ==
    { [label |-> <<"a">>, id |-> <<"1">>],
      [label |-> <<"b">>, id |-> <<"2">>],
      [label |-> <<"c">>],
      [id |-> <<"3">>] }

ContribEntries ==
    { [agent |-> [label |-> <<"a">>, id |-> <<"1">>],
       roles |-> << [label |-> <<"r">>], [label |-> <<"s">>] >>],
      [agent |-> [label |-> <<"b">>], roles |-> <<>>],
      [agent |-> [label |-> <<"c">>, id |-> <<"2">>], roles |-> <<EmptyDict>>],
      [agent |-> [id |-> <<"3">>], roles |-> << [label |-> <<"t">>] >>],
      EmptyDict }

IdentEntries ==
    { [identifierType |-> [id |-> Str_isbn], value |-> <<"1">>],
      [identifierType |-> [id |-> Str_isbn], value |-> <<"2">>],
      [identifierType |-> [id |-> Str_issn], value |-> <<"3">>],
      [identifierType |-> [id |-> Str_sierra], value |-> <<"4">>],
      [identifierType |-> [id |-> <<"x","-","W","e","l","l","c","o","m","e">>],
       value |-> <<"5">>],
      [identifierType |-> [id |-> <<"I","S","B","N">>], value |-> <<"6">>],
      [identifierType |-> [id |-> Str_isbn], value |-> <<>>],
      [value |-> <<"7">>] }

NoteEntries ==
    { [noteType |-> [label |-> <<"n">>],
       contents |-> << [isstr |-> TRUE, s |-> <<"x">>], [isstr |-> FALSE],
                       [isstr |-> TRUE, s |-> <<"y">>] >>],
      [contents |-> << [isstr |-> TRUE, s |-> <<"z">>] >>],
      EmptyDict }

StatusLabels == << <<"o">>, <<"c">> >>

LocOnline ==
    [locationType |-> [id |-> Str_online],
     accessConditions |-> << [status |-> [label |-> <<"o">>]] >>]
LocPhysical ==
    [locationType |-> [id |-> <<"p">>],
     accessConditions |-> << [status |-> [label |-> <<"c">>]],
                             [status |-> [label |-> <<"o">>]] >>]
LocClosed ==
    [accessConditions |-> << [status |-> [label |-> <<"c">>]], EmptyDict,
                             [status |-> EmptyDict] >>]

ItemEntries ==
    { EmptyDict,
      [locations |-> <<LocOnline>>],
      [locations |-> <<LocPhysical>>],
      [locations |-> <<LocClosed, LocOnline>>],
      [locations |-> <<LocClosed, EmptyDict>>] }

ProductionValues ==
    { <<>>,
      <<EmptyDict>>,
      << [function |-> [label |-> <<"f">>],
          dates |-> << [label |-> <<"1","9">>,
                        range |-> [from |-> <<"1">>, to |-> <<"9">>]],
                       [label |-> <<"2","0">>] >>,
          places |-> << [label |-> <<"p">>], EmptyDict, [label |-> <<"q">>] >>,
          agents |-> << [label |-> <<"g">>] >>],
         [function |-> [label |-> <<"h">>]] >>,
      << [function |-> EmptyDict, dates |-> << [label |-> <<"1","9">>] >>] >>,
      << [dates |-> << [range |-> [from |-> <<"1">>]] >>, places |-> <<>>] >>,
      << [dates |-> <<>>, agents |-> << EmptyDict, [label |-> <<"g">>] >>] >> }

RelationValues ==
    { <<>>,
      << [title |-> <<"t">>, id |-> <<"1">>] >>,
      << [title |-> <<"t">>] >>,
      << [id |-> <<"1">>], [title |-> <<"u">>, id |-> <<"2">>] >> }

CountValues == { <<>>, <<EmptyDict>>, <<EmptyDict, EmptyDict>> }

ScalarKeys == {"id", "title", "description", "physicalDescription", "lettering",
               "edition", "referenceNumber"}

\* every work has some of the source keys; FieldValues(k) are the values
\* the model gives key k
FieldValues(k) ==
    CASE k \in ScalarKeys -> { <<"v">> }
      [] k = "workType" -> { EmptyDict, [label |-> <<"w">>],
                             [label |-> <<"w">>, id |-> <<"k">>] }
      [] k = "alternativeTitles" -> { <<>>, << <<"a">> >>, << <<"a">>, <<"b">> >> }
      [] k = "production" -> ProductionValues
      [] k = "contributors" -> Seqs(ContribEntries, MaxEntries)
      [] k \in {"subjects", "genres", "languages"} -> Seqs(LabelIdEntries, MaxEntries)
      [] k = "identifiers" -> Seqs(IdentEntries, MaxIdents)
      [] k = "notes" -> Seqs(NoteEntries, MaxEntries)
      [] k = "thumbnail" -> { EmptyDict, [url |-> <<"u">>], [license |-> <<"l">>] }
      [] k = "items" -> Seqs(ItemEntries, MaxItems)
      [] k \in {"partOf", "precededBy", "succeededBy"} -> RelationValues
      [] k \in {"holdings", "parts", "images"} -> CountValues

SourceKeys ==
    ScalarKeys \cup
    {"workType", "alternativeTitles", "production", "contributors", "subjects",
     "genres", "languages", "identifiers", "notes", "thumbnail", "items",
     "partOf", "precededBy", "succeededBy", "holdings", "parts", "images"}

\* a record that holds every source key
FullWork ==
    [ id |-> <<"i">>, title |-> <<"t">>, description |-> <<"d">>,
      physicalDescription |-> <<"p">>, lettering |-> <<"l">>, edition |-> <<"e">>,
      referenceNumber |-> <<"r">>,
      workType |-> [label |-> <<"w">>, id |-> <<"k">>],
      alternativeTitles |-> << <<"a">>, <<"b">> >>,
      production |-> << [function |-> [label |-> <<"f">>],
                         dates |-> << [label |-> <<"1","9">>,
                                       range |-> [from |-> <<"1">>, to |-> <<"9">>]] >>,
                         places |-> << [label |-> <<"p">>] >>,
                         agents |-> << [label |-> <<"g">>] >>] >>,
      contributors |-> << [agent |-> [label |-> <<"b">>], roles |-> <<>>],
                          [agent |-> [label |-> <<"a">>, id |-> <<"1">>],
                           roles |-> << [label |-> <<"r">>] >>] >>,
      subjects |-> << [label |-> <<"c">>], [label |-> <<"a">>, id |-> <<"1">>] >>,
      genres |-> << [label |-> <<"a">>, id |-> <<"1">>] >>,
      languages |-> << [label |-> <<"b">>, id |-> <<"2">>] >>,
      identifiers |-> << [identifierType |-> [id |-> Str_isbn], value |-> <<"1">>],
                         [identifierType |-> [id |-> Str_sierra], value |-> <<"4">>] >>,
      notes |-> << [contents |-> << [isstr |-> TRUE, s |-> <<"z">>] >>] >>,
      thumbnail |-> [url |-> <<"u">>],
      items |-> << [locations |-> <<LocPhysical>>], [locations |-> <<LocOnline>>] >>,
      partOf |-> << [title |-> <<"t">>, id |-> <<"1">>] >>,
      precededBy |-> << [title |-> <<"t">>] >>,
      succeededBy |-> << [id |-> <<"1">>] >>,
      holdings |-> <<EmptyDict>>,
      parts |-> <<EmptyDict, EmptyDict>>,
      images |-> <<EmptyDict>> ]

Without(d, k) == [x \in (DOMAIN d) \ {k} |-> d[x]]

\* the records extract_all_fields is run on: the empty record with one key
\* set, the full record, and the full record with one key dropped
Works ==
    {EmptyWork, FullWork}
    \cup UNION { { Put(EmptyWork, k, v) : v \in FieldValues(k) } : k \in SourceKeys }
    \cup { Without(FullWork, k) : k \in SourceKeys }

\* the orders a process can give the status labels in a set
HashOrders == { StatusLabels, << StatusLabels[2], StatusLabels[1] >> }

(***************************************************************************)
(* The files the loaders read.  A line is text json.loads rejects, text    *)
(* that parses to a value that is no object, or the text of a record.      *)
(***************************************************************************)
Malformed == [kind |-> "malformed"]
NonObject == [kind |-> "value"]
ObjectLine(w) == [kind |-> "object", work |-> w]

LineValues == { Malformed, NonObject, ObjectLine(EmptyWork), ObjectLine(FullWork) }

\* a gzip file: its lines, and whether the compressed stream breaks after them
Disks == [ lines : Seqs(LineValues, MaxLines), corrupt : BOOLEAN ]
NoDisk == [ lines |-> <<>>, corrupt |-> FALSE ]

\* n_samples is <<>> for None and <<k>> for the int k
NoneCap == <<>>
Caps == {NoneCap} \cup { <<k>> : k \in 0..MaxCap }

(***************************************************************************)
(* The state: the loader's and the flattener's locals, the file system and  *)
(* the process.                                                            *)
(***************************************************************************)
VARIABLES
    fn,             \* the function under execution
    dirstate,       \* data_dir: "noparent", "nodir" or "dir"
    exists,         \* whether the gzip file is on disk
    existed,        \* whether it was on disk when the function was called
    disk,           \* the gzip file on disk
    n_samples,      \* parameter of load_wellcome_data
    force_download, \* parameter of load_wellcome_data
    lpc,            \* position in the loader
    nread,          \* lines taken from the stream f
    i,              \* enumerate's index of the line in hand
    line,           \* the line in hand
    works,          \* works (load_wellcome_data) or data (load_data)
    effects,        \* what the loader has done to the outside world
    err,            \* the exception that ended the loader, "" if none
    hashorder,      \* the order the process's str hashes give the status labels
    work,           \* argument of extract_all_fields
    parsed,         \* its local dict
    pc,             \* position in extract_all_fields
    idx,            \* position of the running for loop
    jdx,            \* position of the inner loop over locations
    calls,          \* invocations of extract_all_fields already returned
    first,          \* the value the first invocation returned
    restarted       \* whether the second invocation runs in a new process

loaderVars == << dirstate, exists, existed, disk, n_samples, force_download, lpc,
                 nread, i, line, works, effects, err >>
flattenVars == << work, parsed, pc, idx, jdx, calls, first, restarted >>
vars == << fn, loaderVars, hashorder, flattenVars >>

(***************************************************************************)
(* extract_all_fields, statement by statement.                             *)
(***************************************************************************)
FlattenFrame == UNCHANGED << fn, loaderVars, hashorder, work, calls, first, restarted >>

\* a block of the function that is not a loop: its effect and the next block
Block(new, next) ==
    /\ parsed' = new
    /\ pc' = next
    /\ idx' = 1
    /\ jdx' = 1
    /\ FlattenFrame

\* one pass through the header of a for loop over lst: the body leaves
\* stepped in parsed, or the loop ends and next follows
Loop(lst, stepped, next) ==
    /\ IF idx <= Len(lst)
       THEN /\ parsed' = stepped
            /\ idx' = idx + 1
            /\ pc' = pc
       ELSE /\ parsed' = parsed
            /\ idx' = 1
            /\ pc' = next
    /\ jdx' = 1
    /\ FlattenFrame

Begin ==
    /\ pc = "start"
    /\ Block(InitParsed(work), "alt_titles")

DoAltTitles ==
    /\ pc = "alt_titles"
    /\ Block(AltTitles(parsed, work), "production")

DoProduction ==
    /\ pc = "production"
    /\ Block(Production(parsed, work), "contributors")

ForContributors ==
    /\ pc = "contributors"
    /\ LET lst == Get(work, "contributors", <<>>)
       IN Loop(lst, ContribStep(parsed, lst[idx]), "subjects")

ForSubjects ==
    /\ pc = "subjects"
    /\ LET lst == Get(work, "subjects", <<>>)
       IN Loop(lst, SubjectStep(parsed, lst[idx]), "genres")

ForGenres ==
    /\ pc = "genres"
    /\ LET lst == Get(work, "genres", <<>>)
       IN Loop(lst, GenreStep(parsed, lst[idx]), "languages")

ForLanguages ==
    /\ pc = "languages"
    /\ LET lst == Get(work, "languages", <<>>)
       IN Loop(lst, LanguageStep(parsed, lst[idx]), "identifiers")

ForIdentifiers ==
    /\ pc = "identifiers"
    /\ LET lst == Get(work, "identifiers", <<>>)
       IN Loop(lst, IdentStep(parsed, lst[idx]), "notes")

ForNotes ==
    /\ pc = "notes"
    /\ LET lst == Get(work, "notes", <<>>)
       IN Loop(lst, NoteStep(parsed, lst[idx]), "thumbnail")

DoThumbnail ==
    /\ pc = "thumbnail"
    /\ Block(Thumbnail(parsed, work), "items_count")

\* (the count kept between calls)
DoItemsCountKept ==
    /\ pc = "items_count"
    /\ Block(Put(parsed, "items_count",
                 Len(Get(work, "items", <<>>))
                     + IF calls > 0 THEN first["items_count"] ELSE 0),
             "items")

DoItemsCount ==
    /\ pc = "items_count"
    /\ Block(ItemsCount(parsed, work), "items")

\* header of: for item in items
ForItems ==
    /\ pc = "items"
    /\ pc' = IF idx <= Len(Get(work, "items", <<>>)) THEN "locations" ELSE "holdings"
    /\ jdx' = 1
    /\ UNCHANGED << parsed, idx >>
    /\ FlattenFrame

\* header and body of: for loc in locations
ForLocations ==
    /\ pc = "locations"
    /\ LET locations == Get(work["items"][idx], "locations", <<>>) IN
       IF jdx <= Len(locations)
       THEN /\ parsed' = LocStep(parsed, locations[jdx])
            /\ jdx' = jdx + 1
            /\ UNCHANGED << idx, pc >>
       ELSE /\ idx' = idx + 1
            /\ jdx' = 1
            /\ pc' = "items"
            /\ UNCHANGED parsed
    /\ FlattenFrame

DoHoldings ==
    /\ pc = "holdings"
    /\ Block(Holdings(parsed, work), "partOf")

DoPartOf ==
    /\ pc = "partOf"
    /\ Block(PartOf(parsed, work), "parts")

DoParts ==
    /\ pc = "parts"
    /\ Block(Parts(parsed, work), "precededBy")

DoPrecededBy ==
    /\ pc = "precededBy"
    /\ Block(PrecededBy(parsed, work), "succeededBy")

DoSucceededBy ==
    /\ pc = "succeededBy"
    /\ Block(SucceededBy(parsed, work), "images")

DoImages ==
    /\ pc = "images"
    /\ Block(Images(parsed, work), "convert")

DoConvert ==
    /\ pc = "convert"
    /\ Block(Convert(parsed, hashorder), "return")

\* the caller runs the function again on the same record, in the same process
CallAgain ==
    /\ fn = "extract_all_fields"
    /\ pc = "return"
    /\ calls = 0
    /\ first' = parsed
    /\ calls' = 1
    /\ pc' = "start"
    /\ parsed' = EmptyDict
    /\ UNCHANGED << fn, loaderVars, hashorder, work, idx, jdx, restarted >>

\* the caller runs the function again on the same record in a new process,
\* whose str hashes are salted afresh
Restart ==
    /\ fn = "extract_all_fields"
    /\ pc = "return"
    /\ calls = 0
    /\ first' = parsed
    /\ calls' = 1
    /\ pc' = "start"
    /\ parsed' = EmptyDict
    /\ restarted' = TRUE
    /\ hashorder' \in HashOrders
    /\ UNCHANGED << fn, loaderVars, work, idx, jdx >>

InitFlatten ==
    /\ fn = "extract_all_fields"
    /\ dirstate = "dir"
    /\ exists = FALSE
    /\ existed = FALSE
    /\ disk = NoDisk
    /\ n_samples = NoneCap
    /\ force_download = FALSE
    /\ lpc = "idle"
    /\ nread = 0
    /\ i = 0
    /\ line = Malformed
    /\ works = <<>>
    /\ effects = {}
    /\ err = ""
    /\ hashorder \in HashOrders
    /\ work \in Works
    /\ parsed = EmptyDict
    /\ pc = "start"
    /\ idx = 1
    /\ jdx = 1
    /\ calls = 0
    /\ first = EmptyDict
    /\ restarted = FALSE

NextFlatten ==
    \/ Begin \/ DoAltTitles \/ DoProduction \/ ForContributors \/ ForSubjects
    \/ ForGenres \/ ForLanguages \/ ForIdentifiers \/ ForNotes \/ DoThumbnail
    \/ DoItemsCount \/ ForItems \/ ForLocations \/ DoHoldings \/ DoPartOf
    \/ DoParts \/ DoPrecededBy \/ DoSucceededBy \/ DoImages \/ DoConvert
    \/ CallAgain \/ Restart

SpecFlatten == InitFlatten /\ [][NextFlatten]_vars

(***************************************************************************)
(* load_wellcome_data and load_data.                                       *)
(***************************************************************************)
LoaderFrame == UNCHANGED << fn, existed, n_samples, force_download, hashorder, flattenVars >>

\* the loader ends with exception e
Raise(e) ==
    /\ err' = e
    /\ lpc' = "error"

\* json.loads(line), for a line it accepts
JsonLoads(l) == IF l.kind = "object" THEN l.work ELSE <<"3">>

\* for ... in f: the stream yields its next line, ends, or breaks
NextLine ==
    IF nread < Len(disk.lines)
    THEN /\ line' = disk.lines[nread + 1]
         /\ nread' = nread + 1
         /\ i' = nread
         /\ lpc' = "body"
         /\ err' = err
    ELSE /\ IF disk.corrupt THEN Raise("EOFError")
            ELSE lpc' = "assemble" /\ err' = err
         /\ UNCHANGED << line, nread, i >>

\* data_dir.mkdir(exist_ok=True)
MakeDir ==
    /\ fn = "load_wellcome_data"
    /\ lpc = "call"
    /\ IF dirstate = "noparent"
       THEN Raise("FileNotFoundError") /\ UNCHANGED << dirstate, effects >>
       ELSE /\ lpc' = "check"
            /\ err' = err
            /\ dirstate' = "dir"
            /\ effects' = IF dirstate = "nodir" THEN effects \cup {"mkdir"} ELSE effects
    /\ UNCHANGED << exists, disk, nread, i, line, works >>
    /\ LoaderFrame

\* if force_download or not zipped_path.exists()
CheckFile ==
    /\ fn = "load_wellcome_data"
    /\ lpc = "check"
    /\ lpc' = IF force_download \/ ~exists THEN "download" ELSE "fetch"
    /\ UNCHANGED << dirstate, exists, disk, nread, i, line, works, effects, err >>
    /\ LoaderFrame

\* the download: the request fails, the body is written whole, or the
\* transfer breaks after the file was opened for writing
Download ==
    /\ fn = "load_wellcome_data"
    /\ lpc = "download"
    /\ \/ /\ Raise("ConnectionError")
          /\ effects' = effects \cup {"http_get"}
          /\ UNCHANGED << exists, disk >>
       \/ /\ disk' \in Disks
          /\ exists' = TRUE
          /\ effects' = effects \cup {"http_get", "write_file"}
          /\ lpc' = "fetch"
          /\ err' = err
       \/ /\ disk' \in { d \in Disks : d.corrupt }
          /\ exists' = TRUE
          /\ effects' = effects \cup {"http_get", "write_file"}
          /\ Raise("ConnectionError")
    /\ UNCHANGED << dirstate, nread, i, line, works >>
    /\ LoaderFrame

\* for i, line in enumerate(tqdm(f, ...))
Fetch ==
    /\ fn = "load_wellcome_data"
    /\ lpc = "fetch"
    /\ NextLine
    /\ UNCHANGED << dirstate, exists, disk, works, effects >>
    /\ LoaderFrame

\* if n_samples is not None and i >= n_samples
CapReachedLate(cap, index) == cap # NoneCap /\ index > cap[1]

CapReached(cap, index) == cap # NoneCap /\ index >= cap[1]

\* except json.JSONDecodeError: continue
AfterMalformedBreak == "assemble"

AfterMalformed == "fetch"

\* the body of the loop: the cap test, json.loads, extract_all_fields, append
Body ==
    /\ fn = "load_wellcome_data"
    /\ lpc = "body"
    /\ IF CapReached(n_samples, i)
       THEN /\ lpc' = "assemble"
            /\ UNCHANGED << works, err >>
       ELSE IF line.kind = "malformed"
       THEN /\ lpc' = AfterMalformed
            /\ UNCHANGED << works, err >>
       ELSE IF line.kind = "object"
       THEN /\ works' = Append(works, ExtractAllFields(JsonLoads(line), hashorder))
            /\ lpc' = "fetch"
            /\ err' = err
       ELSE /\ Raise("AttributeError")
            /\ UNCHANGED works
    /\ UNCHANGED << dirstate, exists, disk, nread, i, line, effects >>
    /\ LoaderFrame

\* df = pd.DataFrame(works), the report, return df
Assemble ==
    /\ fn = "load_wellcome_data"
    /\ lpc = "assemble"
    /\ lpc' = "done"
    /\ UNCHANGED << dirstate, exists, disk, nread, i, line, works, effects, err >>
    /\ LoaderFrame

\* os.path.exists(path)
PathExistsAssumed == TRUE

PathExists == exists

\* load_data: if not os.path.exists(path): raise FileNotFoundError
DataCheck ==
    /\ fn = "load_data"
    /\ lpc = "call"
    /\ IF ~PathExists THEN Raise("FileNotFoundError")
       ELSE lpc' = "fetch" /\ err' = err
    /\ UNCHANGED << dirstate, exists, disk, nread, i, line, works, effects >>
    /\ LoaderFrame

\* load_data: for line in f
DataFetch ==
    /\ fn = "load_data"
    /\ lpc = "fetch"
    /\ NextLine
    /\ UNCHANGED << dirstate, exists, disk, works, effects >>
    /\ LoaderFrame

\* load_data: data.append(json.loads(line))
DataBody ==
    /\ fn = "load_data"
    /\ lpc = "body"
    /\ IF line.kind = "malformed"
       THEN Raise("JSONDecodeError") /\ UNCHANGED works
       ELSE /\ works' = Append(works, JsonLoads(line))
            /\ lpc' = "fetch"
            /\ err' = err
    /\ UNCHANGED << dirstate, exists, disk, nread, i, line, effects >>
    /\ LoaderFrame

\* load_data: return pd.DataFrame(data)
DataFrame ==
    /\ fn = "load_data"
    /\ lpc = "assemble"
    /\ lpc' = "done"
    /\ UNCHANGED << dirstate, exists, disk, nread, i, line, works, effects, err >>
    /\ LoaderFrame

\* the file a forced download overwrites
OldDisks == { d \in Disks : Len(d.lines) = 0 }

Init ==
    /\ fn \in {"load_wellcome_data", "load_data"}
    /\ dirstate \in {"noparent", "nodir", "dir"}
    /\ exists \in BOOLEAN
    /\ exists => dirstate = "dir"
    /\ existed = exists
    /\ n_samples \in Caps
    /\ force_download \in BOOLEAN
    /\ fn = "load_data" => n_samples = NoneCap /\ ~force_download /\ dirstate = "dir"
    /\ disk \in IF ~exists THEN {NoDisk} ELSE IF force_download THEN OldDisks ELSE Disks
    /\ lpc = "call"
    /\ nread = 0
    /\ i = 0
    /\ line = Malformed
    /\ works = <<>>
    /\ effects = {}
    /\ err = ""
    /\ hashorder \in HashOrders
    /\ work = EmptyDict
    /\ parsed = EmptyDict
    /\ pc = "idle"
    /\ idx = 1
    /\ jdx = 1
    /\ calls = 0
    /\ first = EmptyDict
    /\ restarted = FALSE

Next ==
    \/ MakeDir \/ CheckFile \/ Download \/ Fetch \/ Body \/ Assemble
    \/ DataCheck \/ DataFetch \/ DataBody \/ DataFrame

Spec == Init /\ [][Next]_vars

(***************************************************************************)
(* Properties of the loaders.                                              *)
(***************************************************************************)
Min(a, b) == IF a <= b THEN a ELSE b

\* json.loads accepts the line
Parses(l) == l.kind # "malformed"

IsRecord(l) == l.kind = "object"

ParsedCount(lines) == Cardinality({ n \in DOMAIN lines : Parses(lines[n]) })

\* every line of the file is malformed or the text of a record
OnlyRecordsAndMalformed == \A n \in DOMAIN disk.lines : disk.lines[n].kind # "value"

Returned == fn = "load_wellcome_data" /\ lpc = "done"

\* C1: with a cap k, a malformed line is skipped and does not count toward
\* the cap: the loader returns min(k, number of lines that parse) rows.
C1_MalformedNotCounted ==
    (Returned /\ n_samples # NoneCap /\ OnlyRecordsAndMalformed)
        => Len(works) = Min(n_samples[1], ParsedCount(disk.lines))

\* C2: when every line parses, the loader returns as many rows as the file
\* has lines, or n_samples rows if that is smaller; all lines when n_samples
\* is None.
C2_RowCount ==
    (Returned /\ \A n \in DOMAIN disk.lines : Parses(disk.lines[n]))
        => Len(works) = IF n_samples = NoneCap THEN Len(disk.lines)
                        ELSE Min(n_samples[1], Len(disk.lines))

C2_Witness ==
    /\ Returned
    /\ \A n \in DOMAIN disk.lines : Parses(disk.lines[n])
    /\ n_samples # NoneCap
    /\ n_samples[1] > 0
    /\ n_samples[1] < Len(disk.lines)
    /\ Len(works) = n_samples[1]

Missing == ~existed

\* C6: opening a path that does not exist fails with a not-found error
\* before any reading: no line is read, no record is produced and nothing is
\* created or downloaded first.
C6_NotFoundBeforeReading ==
    Missing =>
        /\ nread = 0
        /\ works = <<>>
        /\ effects = {}
        /\ lpc # "done"
        /\ lpc = "error" => err = "FileNotFoundError"

\* C6 as amended: load_data fails so; load_wellcome_data with the file
\* missing reads only after it has downloaded the file, and raises
\* FileNotFoundError only for a data directory whose parent is missing,
\* before any side effect.
C6_NotFoundInLoadData ==
    Missing =>
        /\ fn = "load_data" =>
              /\ nread = 0
              /\ works = <<>>
              /\ effects = {}
              /\ lpc \in {"call", "error"}
              /\ lpc = "error" => err = "FileNotFoundError"
        /\ fn = "load_wellcome_data" =>
              /\ nread > 0 => {"http_get", "write_file"} \subseteq effects
              /\ lpc = "done" => "write_file" \in effects
              /\ err = "FileNotFoundError" =>
                    dirstate = "noparent" /\ effects = {} /\ nread = 0

C6_Witness ==
    /\ fn = "load_data"
    /\ Missing
    /\ lpc = "error"
    /\ err = "FileNotFoundError"

\* C9: with a cap k the loader reads no line beyond those it needs: when
\* the first k lines parse and the file has more than k lines, exactly k
\* lines have been read when the iteration stops.
C9_NoPreRead ==
    (/\ Returned
     /\ n_samples # NoneCap
     /\ n_samples[1] < Len(disk.lines)
     /\ \A n \in DOMAIN disk.lines : IsRecord(disk.lines[n]))
        => nread = n_samples[1]

\* the rows of the lines that parse, in file order
RECURSIVE RowsOf(_, _)
RowsOf(lines, order) ==
    IF Len(lines) = 0 THEN <<>>
    ELSE IF Parses(lines[1])
         THEN <<ExtractAllFields(lines[1].work, order)>> \o RowsOf(Tail(lines), order)
         ELSE RowsOf(Tail(lines), order)

IsPrefix(s, t) == Len(s) <= Len(t) /\ SubSeq(t, 1, Len(s)) = s

\* C10: with n_samples None a malformed line neither ends the run nor
\* changes the rows collected so far, and the loader returns exactly the
\* rows of the lines that parse, in file order.
C10_MalformedSkipped ==
    /\ []((Returned /\ n_samples = NoneCap) => works = RowsOf(disk.lines, hashorder))
    /\ [][(fn = "load_wellcome_data" /\ lpc = "body" /\ n_samples = NoneCap)
            => /\ IsPrefix(works, works')
               /\ line.kind = "malformed" => (works' = works /\ lpc' = "fetch")]_vars

C10_Witness ==
    /\ Returned
    /\ n_samples = NoneCap
    /\ Len(disk.lines) = 3
    /\ disk.lines[2].kind = "malformed"
    /\ Len(works) = 2
    /\ works[1] # works[2]

(***************************************************************************)
(* Properties of extract_all_fields.                                       *)
(***************************************************************************)
FlatRecordKeys ==
    { "id", "title", "alternativeTitles", "workType", "workType_id", "description",
      "physicalDescription", "lettering", "edition", "production_date",
      "production_date_from", "production_date_to", "production_places",
      "production_agents", "production_function", "contributors",
      "contributor_roles", "contributor_ids", "subjects", "subject_ids", "genres",
      "genre_ids", "languages", "language_ids", "identifiers", "isbn", "issn",
      "sierra_system_number", "wellcome_library_number", "notes", "note_types",
      "thumbnail_url", "has_digitized_items", "items_count", "availability_status",
      "partOf_title", "partOf_id", "parts_count", "precededBy_title",
      "precededBy_id", "succeededBy_title", "succeededBy_id", "holdings_count",
      "referenceNumber", "images_count" }

\* the fields that are null when the source key is absent
NullWhenAbsent(k) ==
    CASE k \in ScalarKeys -> {k}
      [] k = "workType" -> {"workType", "workType_id"}
      [] k = "alternativeTitles" -> {"alternativeTitles"}
      [] k = "production" ->
            {"production_date", "production_date_from", "production_date_to",
             "production_places", "production_agents", "production_function"}
      [] k = "contributors" -> {"contributors", "contributor_roles", "contributor_ids"}
      [] k = "subjects" -> {"subjects", "subject_ids"}
      [] k = "genres" -> {"genres", "genre_ids"}
      [] k = "languages" -> {"languages", "language_ids"}
      [] k = "identifiers" ->
            {"identifiers", "isbn", "issn", "sierra_system_number",
             "wellcome_library_number"}
      [] k = "notes" -> {"notes", "note_types"}
      [] k = "thumbnail" -> {"thumbnail_url"}
      [] k = "items" -> {"availability_status"}
      [] k = "partOf" -> {"partOf_title", "partOf_id"}
      [] k = "precededBy" -> {"precededBy_title", "precededBy_id"}
      [] k = "succeededBy" -> {"succeededBy_title", "succeededBy_id"}
      [] OTHER -> {}

\* the counts that are 0 when the source key is absent
ZeroWhenAbsent(k) ==
    CASE k = "items" -> {"items_count"}
      [] k = "parts" -> {"parts_count"}
      [] k = "holdings" -> {"holdings_count"}
      [] k = "images" -> {"images_count"}
      [] OTHER -> {}

Running == pc \notin {"idle", "start"}

\* C3: at every step of the flattening the dict has exactly the fixed key
\* set, whatever source keys the record holds, and in the returned dict a
\* field whose source key is absent holds its default: null, 0 for a count,
\* false for has_digitized_items.
C3_FixedKeySet ==
    /\ Running => DOMAIN parsed = FlatRecordKeys
    /\ pc = "return" =>
          \A k \in SourceKeys \ DOMAIN work :
              /\ \A f \in NullWhenAbsent(k) : parsed[f] = None
              /\ \A f \in ZeroWhenAbsent(k) : parsed[f] = 0
              /\ k = "items" => parsed["has_digitized_items"] = FALSE

C3_Witness ==
    /\ pc = "return"
    /\ "thumbnail" \in DOMAIN work
    /\ parsed["thumbnail_url"] # None
    /\ "items" \notin DOMAIN work
    /\ parsed["items_count"] = 0

\* the entries of lst that hold key k
Having(lst, k) == SelectSeq(lst, LAMBDA e : k \in DOMAIN e)

\* the Nth id belongs to the source entry of the Nth label
IdsAligned(ids, labelled) ==
    /\ Len(ids) <= Len(labelled)
    /\ \A n \in DOMAIN ids : "id" \in DOMAIN labelled[n] /\ ids[n] = labelled[n]["id"]

\* the labelled contributors
LabelledContribs ==
    SelectSeq(Get(work, "contributors", <<>>),
              LAMBDA c : "label" \in DOMAIN Get(c, "agent", EmptyDict))

\* the Nth role and the Nth label belong to the same contributor
RolesAligned ==
    /\ Len(parsed["contributor_roles"]) = Len(LabelledContribs)
    /\ Len(parsed["contributors"]) = Len(LabelledContribs)
    /\ \A n \in DOMAIN LabelledContribs :
          /\ parsed["contributors"][n] = LabelledContribs[n]["agent"]["label"]
          /\ parsed["contributor_roles"][n] = RoleLabel(LabelledContribs[n])

\* the labels of a group are those of its labelled entries, in source order
LabelsInOrder(labelKey, sourceKey) ==
    LET labelled == Having(Get(work, sourceKey, <<>>), "label") IN
    /\ Len(parsed[labelKey]) = Len(labelled)
    /\ \A n \in DOMAIN labelled : parsed[labelKey][n] = labelled[n]["label"]

\* the ids of a group are those of its labelled entries that hold an id, in
\* source order
IdsOfLabelled(idKey, sourceKey) ==
    LET withId == Having(Having(Get(work, sourceKey, <<>>), "label"), "id") IN
    /\ Len(parsed[idKey]) = Len(withId)
    /\ \A n \in DOMAIN withId : parsed[idKey][n] = withId[n]["id"]

Groups ==
    { <<"subjects", "subject_ids", "subjects">>,
      <<"genres", "genre_ids", "genres">>,
      <<"languages", "language_ids", "languages">> }

\* C4: in the lists built by the loops, the Nth role belongs to the same
\* contributor as the Nth label, and for subjects, genres and languages
\* the Nth id belongs to the same entry as the Nth label.
C4_LockStep ==
    pc = "convert" =>
        /\ RolesAligned
        /\ \A g \in Groups :
              /\ LabelsInOrder(g[1], g[3])
              /\ IdsAligned(parsed[g[2]], Having(Get(work, g[3], <<>>), "label"))

\* C4 as amended: roles and labels of contributors are in lock step; the id
\* list of each group holds the ids of the labelled entries that carry one,
\* so it is aligned with the labels when every labelled entry carries an id.
C4_LockStepRoles ==
    pc = "convert" =>
        /\ RolesAligned
        /\ \A g \in Groups :
              LET labelled == Having(Get(work, g[3], <<>>), "label") IN
              /\ LabelsInOrder(g[1], g[3])
              /\ IdsOfLabelled(g[2], g[3])
              /\ (\A n \in DOMAIN labelled : "id" \in DOMAIN labelled[n])
                    => IdsAligned(parsed[g[2]], labelled)

C4_Witness ==
    /\ pc = "convert"
    /\ Len(parsed["subjects"]) = 2
    /\ Len(parsed["subject_ids"]) = 1
    /\ "id" \notin DOMAIN Having(work["subjects"], "label")[1]

\* str.split(sep)
RECURSIVE Split(_, _)
Split(str, sep) ==
    IF Contains(sep, str)
    THEN LET at == CHOOSE n \in 1..Len(str) :
                      /\ SubSeq(str, n, n + Len(sep) - 1) = sep
                      /\ \A m \in 1..(n - 1) : SubSeq(str, m, m + Len(sep) - 1) # sep
         IN <<SubSeq(str, 1, at - 1)>> \o Split(SubSeq(str, at + Len(sep), Len(str)), sep)
    ELSE <<str>>

\* the labels a joined availability_status names
StatusSet(v) ==
    IF v = None THEN {}
    ELSE { Split(v, SemiSep)[n] : n \in DOMAIN Split(v, SemiSep) }

SecondReturned == fn = "extract_all_fields" /\ pc = "return" /\ calls = 1

TypeId(e) ==
    IF "identifierType" \in DOMAIN e /\ "id" \in DOMAIN e["identifierType"]
    THEN e["identifierType"]["id"] ELSE <<>>
ValueOf(e) == IF "value" \in DOMAIN e THEN e["value"] ELSE <<>>

\* the entries whose type id and value are both non-empty
Usable(idents) == SelectSeq(idents, LAMBDA e : TypeId(e) # <<>> /\ ValueOf(e) # <<>>)

\* the scalar field an identifier type is routed to
RouteOf(type) ==
    IF type = Str_isbn THEN "isbn"
    ELSE IF type = Str_issn THEN "issn"
    ELSE IF type = Str_sierra THEN "sierra_system_number"
    ELSE IF \E n \in 1..Len(type) :
              /\ n + 7 <= Len(type)
              /\ Lower(SubSeq(type, n, n + 7)) = Str_wellcome
         THEN "wellcome_library_number"
    ELSE "none"

ScalarIdFields == {"isbn", "issn", "sierra_system_number", "wellcome_library_number"}

\* the value of the last entry routed to field, or null
LastRouted(idents, field) ==
    LET routed == SelectSeq(Usable(idents), LAMBDA e : RouteOf(TypeId(e)) = field) IN
    IF Len(routed) = 0 THEN None ELSE ValueOf(routed[Len(routed)])

\* "type:value" of the usable entries, in source order
TypedValues(idents) ==
    [ n \in DOMAIN Usable(idents) |->
        TypeId(Usable(idents)[n]) \o Colon \o ValueOf(Usable(idents)[n]) ]

AfterIdentifiers ==
    {"notes", "thumbnail", "items_count", "items", "locations", "holdings", "partOf",
     "parts", "precededBy", "succeededBy", "images", "convert"}

\* C7: identifiers is the "; "-join, in source order, of "type:value" for
\* the entries whose type id and value are both non-empty; each scalar field
\* holds the value of the last entry routed to it (isbn, issn and
\* sierra-system-number by exact match, else a type id containing
\* "wellcome" in any case), or null; while the list is processed this holds
\* of the entries processed so far.
C7_Identifiers ==
    LET idents == Get(work, "identifiers", <<>>) IN
    /\ pc = "identifiers" =>
          /\ parsed["identifiers"] = TypedValues(SubSeq(idents, 1, idx - 1))
          /\ \A f \in ScalarIdFields :
                parsed[f] = LastRouted(SubSeq(idents, 1, idx - 1), f)
    /\ pc \in AfterIdentifiers =>
          /\ parsed["identifiers"] = TypedValues(idents)
          /\ \A f \in ScalarIdFields : parsed[f] = LastRouted(idents, f)
    /\ pc = "return" =>
          /\ parsed["identifiers"] =
                IF Len(Usable(idents)) = 0 THEN None
                ELSE Join(SemiSep, TypedValues(idents))
          /\ \A f \in ScalarIdFields : parsed[f] = LastRouted(idents, f)

C7_Witness ==
    /\ pc = "return"
    /\ Len(Get(work, "identifiers", <<>>)) = 2
    /\ TypeId(work["identifiers"][1]) = Str_isbn
    /\ ValueOf(work["identifiers"][1]) = <<"1">>
    /\ parsed["isbn"] = <<"2">>
    /\ parsed["identifiers"] =
          << "i","s","b","n",":","1",";"," ","i","s","b","n",":","2" >>

\* the locations of items, in the order the loops visit them
RECURSIVE LocationsOf(_)
LocationsOf(items) ==
    IF Len(items) = 0 THEN <<>>
    ELSE (IF "locations" \in DOMAIN items[1] THEN items[1]["locations"] ELSE <<>>)
         \o LocationsOf(Tail(items))

\* some location of locs has the locationType id "online"
SomeOnline(locs) ==
    \E n \in DOMAIN locs :
        /\ "locationType" \in DOMAIN locs[n]
        /\ "id" \in DOMAIN locs[n]["locationType"]
        /\ locs[n]["locationType"]["id"] = Str_online

\* the locations the loops have visited
Visited ==
    LET items == Get(work, "items", <<>>) IN
    IF pc = "items" THEN LocationsOf(SubSeq(items, 1, idx - 1))
    ELSE LocationsOf(SubSeq(items, 1, idx - 1))
         \o SubSeq(LocationsOf(<<items[idx]>>), 1, jdx - 1)

BeforeItems ==
    {"alt_titles", "production", "contributors", "subjects", "genres", "languages",
     "identifiers", "notes", "thumbnail", "items_count"}

AfterItems ==
    {"holdings", "partOf", "parts", "precededBy", "succeededBy", "images", "convert",
     "return"}

\* C8: has_digitized_items starts false, is true once a visited location is
\* online, is never set back to false, and in the end is true exactly when
\* some location of some item is online; items_count is the length of items.
C8_StickyDigitized ==
    /\ [](pc \in BeforeItems => parsed["has_digitized_items"] = FALSE)
    /\ [](pc \in {"items", "locations"} =>
            parsed["has_digitized_items"] = SomeOnline(Visited))
    /\ [](pc \in AfterItems =>
            /\ parsed["has_digitized_items"]
                  = SomeOnline(LocationsOf(Get(work, "items", <<>>)))
            /\ parsed["items_count"] = Len(Get(work, "items", <<>>)))
    /\ [][(Running /\ pc' # "start" /\ parsed["has_digitized_items"])
            => parsed'["has_digitized_items"]]_vars

C8_Witness ==
    /\ pc = "return"
    /\ parsed["has_digitized_items"]
    /\ parsed["items_count"] = 2
    /\ SomeOnline(LocationsOf(<<work["items"][1]>>))
    /\ ~SomeOnline(LocationsOf(<<work["items"][2]>>))
    /\ Len(LocationsOf(<<work["items"][2]>>)) > 0

\* the stepwise run and the function applied at once agree
StepwiseAgrees == pc = "return" => parsed = ExtractAllFields(work, hashorder)
====
